---------------------------- MODULE Spec2Model ----------------------------
(***************************************************************************)
(* Location tracking and work-session engine of umkm-tracker (seller app): *)
(*   TrackingGateway    (WebSocket registry, updateLocation)               *)
(*   TrackingController (POST location, session distance)                  *)
(*   TrackingService    (sampling policy, haversine, session distance)     *)
(*   StoreService       (storefront open/close = clock-in/clock-out)       *)
(* Times are whole seconds, Date.getTime() is seconds * 1000.              *)
(* Coordinates are integers in micro-degrees (1e-6 degree).                *)
(***************************************************************************)
EXTENDS Integers, Sequences, FiniteSets, TLC

(***************************************************************************)
(* Decimal floating point standing for the IEEE doubles of the source:     *)
(* <<m, e>> is m * 10^e with a mantissa of MantDigitsPow / 10 <= |m| <     *)
(* MantDigitsPow (TLC integers are 32 bit, so products of two mantissas    *)
(* must stay below 2^31).  Zero is <<0, 0>>.                               *)
(***************************************************************************)
MantDigitsPow == 10 * 10 * 10 * 10

Abs(x) == IF x < 0 THEN -x ELSE x

Sgn(x) == IF x < 0 THEN -1 ELSE 1

RECURSIVE Pow10(_)
Pow10(n) == IF n <= 0 THEN 1 ELSE 10 * Pow10(n - 1)

RECURSIVE Norm(_, _)
Norm(m, e) ==
    IF m = 0 THEN <<0, 0>>
    ELSE IF Abs(m) >= MantDigitsPow
         THEN Norm(Sgn(m) * ((Abs(m) + 5) \div 10), e + 1)
    ELSE IF Abs(m) < MantDigitsPow \div 10 THEN Norm(m * 10, e - 1)
    ELSE <<m, e>>

FromInt(n) == Norm(n, 0)

FNeg(a) == <<-a[1], a[2]>>

FMul(a, b) == Norm(a[1] * b[1], a[2] + b[2])

FDiv(a, b) ==
    IF a[1] = 0 THEN <<0, 0>>
    ELSE Norm(Sgn(a[1]) * Sgn(b[1]) * ((Abs(a[1]) * MantDigitsPow) \div Abs(b[1])),
              a[2] - b[2] - 4)

\* the mantissa of a at exponent e >= a[2], with one guard digit kept by the caller
ShiftTo(a, e) ==
    IF e - a[2] > 6 THEN 0
    ELSE Sgn(a[1]) * ((Abs(a[1]) + (Pow10(e - a[2]) \div 2)) \div Pow10(e - a[2]))

FAdd(a, b) ==
    IF a[1] = 0 THEN b
    ELSE IF b[1] = 0 THEN a
    ELSE LET e == (IF a[2] > b[2] THEN a[2] ELSE b[2]) - 1
             ma == IF a[2] = e + 1 THEN a[1] * 10 ELSE ShiftTo(a, e)
             mb == IF b[2] = e + 1 THEN b[1] * 10 ELSE ShiftTo(b, e)
         IN  Norm(ma + mb, e)

FSub(a, b) == FAdd(a, FNeg(b))

\* a > b on floats
FGt(a, b) == FSub(a, b)[1] > 0

RECURSIVE ISqrtIter(_, _)
ISqrtIter(n, x) ==
    LET y == (x + n \div x) \div 2
    IN  IF y >= x THEN x ELSE ISqrtIter(n, y)

ISqrt(n) == IF n = 0 THEN 0 ELSE ISqrtIter(n, n)

\* Math.sqrt on a >= 0
FSqrt(a) ==
    IF a[1] <= 0 THEN <<0, 0>>
    ELSE LET odd == (a[2] % 2) = 1
             m   == IF odd THEN a[1] * 10 ELSE a[1]
             e   == IF odd THEN a[2] - 1 ELSE a[2]
         IN  Norm(ISqrt(m * MantDigitsPow), (e - 4) \div 2)

\* sum of the alternating series t - t*x2/(k(k+1)) + ... , n more terms
RECURSIVE Series(_, _, _, _)
Series(t, x2, k, n) ==
    IF n = 0 \/ t[1] = 0 THEN t
    ELSE FAdd(t, Series(FNeg(FDiv(FMul(t, x2), FromInt(k * (k + 1)))), x2, k + 2, n - 1))

SeriesTerms == 9

\* Math.sin, Math.cos (Taylor series about 0, arguments in [-pi, pi])
FSin(x) == Series(x, FMul(x, x), 2, SeriesTerms)

FCos(x) == Series(<<1000, -3>>, FMul(x, x), 1, SeriesTerms)

F_PI == <<3142, -3>>

F_ONE == <<1000, -3>>

\* atan of t in [0, 1]: two argument halvings, then the series t - t^3/3 + t^5/5 - t^7/7
AtanHalve(t) == FDiv(t, FAdd(F_ONE, FSqrt(FAdd(F_ONE, FMul(t, t)))))

AtanSmall(t) ==
    LET t2 == FMul(t, t)
        t3 == FMul(t, t2)
        t5 == FMul(t3, t2)
        t7 == FMul(t5, t2)
    IN  FAdd(FSub(t, FDiv(t3, FromInt(3))), FSub(FDiv(t5, FromInt(5)), FDiv(t7, FromInt(7))))

FAtan(t) == FMul(FromInt(4), AtanSmall(AtanHalve(AtanHalve(t))))

\* Math.atan2(y, x) for y >= 0, x >= 0, not both 0
FAtan2(y, x) ==
    IF y[1] = 0 THEN <<0, 0>>
    ELSE IF x[1] = 0 THEN FDiv(F_PI, FromInt(2))
    ELSE IF FGt(y, x) THEN FSub(FDiv(F_PI, FromInt(2)), FAtan(FDiv(x, y)))
    ELSE FAtan(FDiv(y, x))

(***************************************************************************)
(* TrackingService.toRadian / haversineDistance.  Arguments are            *)
(* micro-degrees; lat2 - lat1 is taken exactly before the conversion, as   *)
(* the double subtraction of the source is exact to far below 1e-6 degree. *)
(***************************************************************************)
EARTH_RADIUS_KM == 6371

toRadian(microDegrees) == FDiv(FMul(Norm(microDegrees, -6), F_PI), FromInt(180))

\* a = sin(dLat/2)^2 + cos(lat1) cos(lat2) sin(dLng/2)^2, from the sines and cosines
HaversineA(sinLat, sinLng, cosLat1, cosLat2) ==
    FAdd(FMul(sinLat, sinLat), FMul(FMul(FMul(cosLat1, cosLat2), sinLng), sinLng))

\* c = 2 atan2(sqrt(a), sqrt(1 - a))
HaversineC(a) == FMul(FromInt(2), FAtan2(FSqrt(a), FSqrt(FSub(F_ONE, a))))

\* a distance that takes the cosine of the first latitude for both points
haversineDistanceFirstLatitude(lat1, lng1, lat2, lng2) ==
    FMul(FromInt(EARTH_RADIUS_KM),
         HaversineC(HaversineA(FSin(FDiv(toRadian(lat2 - lat1), FromInt(2))),
                               FSin(FDiv(toRadian(lng2 - lng1), FromInt(2))),
                               FCos(toRadian(lat1)), FCos(toRadian(lat1)))))

haversineDistance(lat1, lng1, lat2, lng2) ==
    FMul(FromInt(EARTH_RADIUS_KM),
         HaversineC(HaversineA(FSin(FDiv(toRadian(lat2 - lat1), FromInt(2))),
                               FSin(FDiv(toRadian(lng2 - lng1), FromInt(2))),
                               FCos(toRadian(lat1)), FCos(toRadian(lat2)))))

(***************************************************************************)
(* Identities, inputs and bounds                                           *)
(***************************************************************************)
\* JavaScript null (Session.endTime, LocationLog.sessionId) and "no row found"
NULL == -1

\* rows of the sellers table (Seller.id), and the users that own them
SellerIds == {"s1", "s2"}

Users == {"u1", "u2", "u3"}

\* sellerRepository.findOne({ where: { userId } }): u3 has no store profile
SellerOfUser(userId) ==
    CASE userId = "u1" -> "s1"
      [] userId = "u2" -> "s2"
      [] OTHER -> "none"

\* the users that have a store (a row of sellers)
StoreOwners == {u \in Users : SellerOfUser(u) # "none"}

\* an identity that is no row of sellers; "" is a missing / empty sellerId
UnknownSeller == "sX"

Channels == {"c1", "c2", "c3"}

MaxSessions == 3

MaxLogs == 2

\* the clock runs to MaxTicks steps of TickSeconds
MaxTicks == 3

TickSeconds == 60

\* clock-outs in flight at a time
MaxClosing == 1

\* sample uploads in flight at a time
MaxInflight == 2

\* seconds between the two samples of the shift scenario
ScenarioDelaySeconds == 5

\* a session id that names no row of seller_sessions
DanglingSessionId == MaxSessions + 1

\* sample coordinates in micro-degrees: <<latitude, longitude>>
PointA == <<10000000, 20000000>>

\* (10.00001, 20.00001): about 1.5 m from PointA
PointB == <<10000010, 20000010>>

\* (10.0003, 20.0): about 33 m from PointA
PointC == <<10000300, 20000000>>

ValidPoints == {PointA, PointB, PointC}

\* (200, 20), (10, -180.000001), (-90.000001, 20)
InvalidPoints == {<<200000000, 20000000>>, <<10000000, -180000001>>, <<-90000001, 20000000>>}

SamplePoints == ValidPoints \cup InvalidPoints

\* the location of an entity read without its select:false column
UndefinedLocation == <<>>

(***************************************************************************)
(* State                                                                   *)
(***************************************************************************)
VARIABLES
    now,               \* wall clock, seconds
    sellerIsOpen,      \* sellers.is_open by seller id
    sessions,          \* seller_sessions rows, id = index
    locationLogs,      \* seller_location_logs rows, id = index
    last,              \* the last tracking / store request and its outcome
    closing,           \* clock-outs between closeWorkSession's findOne and its save
    inflight,          \* sample uploads between logLocationHistory's findOne and its save
    connectedSellers,  \* TrackingGateway.connectedSellers: entries <<sellerId, socket>> in insertion order
    sockets,           \* socket state by channel: "new", "connected", "disconnected"
    pendingDisconnect, \* sockets whose disconnect event has not been handled yet
    lastReg            \* the last registry event and its outcome

dbVars == <<now, sellerIsOpen, sessions, locationLogs, last, closing, inflight>>

regVars == <<connectedSellers, sockets, pendingDisconnect, lastReg>>

vars == <<now, sellerIsOpen, sessions, locationLogs, last, closing, inflight,
          connectedSellers, sockets, pendingDisconnect, lastReg>>

\* Date.getTime(): milliseconds
getTime(t) == t * 1000

SessionIds == 1..Len(sessions)

LogIds == 1..Len(locationLogs)

\* a response: the handler (op), what the service call ended in (outcome), what the
\* caller is told (status, message), the row saved / session touched, the broadcast
NoResponse ==
    [op |-> "none", outcome |-> "none", status |-> "none", message |-> "",
     saved |-> NULL, sessionId |-> NULL, broadcast |-> FALSE, broadcastTo |-> {},
     distance |-> <<0, 0>>, data |-> <<>>]

(***************************************************************************)
(* TrackingService                                                         *)
(***************************************************************************)
MIN_DISTANCE_METERS == 20

MIN_TIME_INTERVAL_MS == 2 * 60 * 1000

\* a range check that forgets the longitude
isValidCoordinateLatitudeOnly(latitude, longitude) ==
    latitude >= -90000000 /\ latitude <= 90000000

isValidCoordinate(latitude, longitude) ==
    latitude >= -90000000 /\ latitude <= 90000000
    /\ longitude >= -180000000 /\ longitude <= 180000000

\* an entity loaded with its location column
LoadEntityWithLocation(log) == log

\* an entity as find / findOne return it: SellerLocationLog.location is select:false
LoadEntity(log) == [log EXCEPT !.location = UndefinedLocation]

\* locationLogRepository.findOne({ where: { sellerId }, order: { recordedAt: 'DESC' } }):
\* the ids it may return (rows of equal recordedAt come in no defined order)
LastLocationIds(sellerId) ==
    {i \in LogIds :
        /\ locationLogs[i].sellerId = sellerId
        /\ \A j \in LogIds : locationLogs[j].sellerId = sellerId
              => locationLogs[j].recordedAt <= locationLogs[i].recordedAt}

\* "log", "skip", or "TypeError" when lastLocation.location is undefined
shouldLogLocation(lastLocation, newLatitude, newLongitude) ==
    LET timeDifference == getTime(now) - getTime(lastLocation.recordedAt)
    IN  IF timeDifference > MIN_TIME_INTERVAL_MS THEN "log"
        ELSE IF lastLocation.location = UndefinedLocation THEN "TypeError"
        ELSE LET distance == haversineDistance(lastLocation.location[1],
                                               lastLocation.location[2],
                                               newLatitude, newLongitude)
                 distanceInMeters == FMul(distance, FromInt(1000))
             IN  IF FGt(distanceInMeters, FromInt(MIN_DISTANCE_METERS)) THEN "log" ELSE "skip"

\* locationLogRepository.save: the foreign keys of seller_location_logs
SaveLogAllowed(log) ==
    /\ log.sellerId \in SellerIds
    /\ (log.sessionId = NULL \/ log.sessionId \in SessionIds)

\* an ingest that treats "no last sample" as "nothing to compare with" and skips
logLocationHistorySkipFirst(sellerId, latitude, longitude, sessionId, lastId) ==
    IF ~isValidCoordinate(latitude, longitude)
    THEN [status |-> "BadRequestException", logs |-> locationLogs]
    ELSE [status |-> "skipped", logs |-> locationLogs]

\* an ingest that keeps one row and overwrites it with the new sample
CreateAndSaveUpsert(shouldLog, locationLog) ==
    IF shouldLog = "TypeError" THEN [status |-> "TypeError", logs |-> locationLogs]
    ELSE IF shouldLog = "skip" THEN [status |-> "skipped", logs |-> locationLogs]
    ELSE IF ~SaveLogAllowed(locationLog)
    THEN [status |-> "QueryFailedError", logs |-> locationLogs]
    ELSE [status |-> "logged",
          logs |-> IF locationLogs = <<>> THEN <<locationLog>>
                   ELSE [locationLogs EXCEPT ![Len(locationLogs)] = locationLog]]

\* the rest of logLocationHistory once shouldLogLocation has answered: return null,
\* or create and save the row
CreateAndSave(shouldLog, locationLog) ==
    IF shouldLog = "TypeError" THEN [status |-> "TypeError", logs |-> locationLogs]
    ELSE IF shouldLog = "skip" THEN [status |-> "skipped", logs |-> locationLogs]
    ELSE IF ~SaveLogAllowed(locationLog)
    THEN [status |-> "QueryFailedError", logs |-> locationLogs]
    ELSE [status |-> "logged", logs |-> Append(locationLogs, locationLog)]

\* logLocationHistory with lastId the row findOne returned (NULL: none).
\* The outcome: status and the table afterwards.
logLocationHistory(sellerId, latitude, longitude, sessionId, lastId) ==
    IF ~isValidCoordinate(latitude, longitude)
    THEN [status |-> "BadRequestException", logs |-> locationLogs]
    ELSE CreateAndSave(IF lastId = NULL THEN "log"
                       ELSE shouldLogLocation(LoadEntity(locationLogs[lastId]),
                                              latitude, longitude),
                       [sellerId |-> sellerId, sessionId |-> sessionId,
                        recordedAt |-> now, location |-> <<latitude, longitude>>])

\* the orders in which find({ where: { sessionId }, order: { recordedAt: 'ASC' } })
\* may return the session's rows: sequences of log ids, ascending in recordedAt
SessionLocationHistories(sessionId) ==
    LET ids == {i \in LogIds : locationLogs[i].sessionId = sessionId}
        n   == Cardinality(ids)
    IN  {h \in [1..n -> ids] :
            /\ \A a, b \in 1..n : a # b => h[a] # h[b]
            /\ \A a, b \in 1..n :
                  a < b => locationLogs[h[a]].recordedAt <= locationLogs[h[b]].recordedAt}

\* the loop of calculateSessionDistance over the locations of `points`
RECURSIVE SumDistances(_, _)
SumDistances(points, i) ==
    IF i >= Len(points) THEN <<0, 0>>
    ELSE FAdd(haversineDistance(points[i][1], points[i][2],
                                points[i + 1][1], points[i + 1][2]),
              SumDistances(points, i + 1))

\* the end of calculateSessionDistance: the session row, if found, gets the total
UpdateTotalDistance(sessionId, totalDistance) ==
    [status |-> "ok", distance |-> totalDistance,
     sessions |-> IF sessionId \in SessionIds
                  THEN [sessions EXCEPT ![sessionId].totalDistanceKm = totalDistance]
                  ELSE sessions]

\* calculateSessionDistance with `history` the rows find returned (log ids).
\* The outcome: status, the distance returned and the sessions table afterwards.
calculateSessionDistance(sessionId, history) ==
    LET locations == [k \in 1..Len(history) |-> LoadEntity(locationLogs[history[k]])]
    IN  IF Len(locations) < 2
        THEN [status |-> "ok", distance |-> <<0, 0>>, sessions |-> sessions]
        ELSE IF \E k \in 1..Len(locations) : locations[k].location = UndefinedLocation
        THEN [status |-> "TypeError", distance |-> <<0, 0>>, sessions |-> sessions]
        ELSE UpdateTotalDistance(
                 sessionId,
                 SumDistances([k \in 1..Len(locations) |-> locations[k].location], 1))

(***************************************************************************)
(* StoreService                                                            *)
(***************************************************************************)
\* a clock-in that first ends the sessions the seller left open
createWorkSessionClosingOpen(sellerId) ==
    Append([i \in 1..Len(sessions) |->
               IF sessions[i].sellerId = sellerId /\ sessions[i].endTime = NULL
               THEN [sessions[i] EXCEPT !.endTime = now]
               ELSE sessions[i]],
           [sellerId |-> sellerId, startTime |-> now, endTime |-> NULL,
            totalDistanceKm |-> <<0, 0>>])

\* createWorkSession
createWorkSession(sellerId) ==
    Append(sessions, [sellerId |-> sellerId, startTime |-> now, endTime |-> NULL,
                      totalDistanceKm |-> <<0, 0>>])

\* sessionRepository.findOne({ where: { sellerId, endTime: null }, order: { startTime: 'DESC' } }):
\* the ids it may return.  The find options of the DataSource API (TypeORM 0.3) skip a
\* where property whose value is null, so endTime is no condition of the query: the
\* row is the seller's session with the latest startTime, ended or not.
ActiveSessionIds(sellerId) ==
    {i \in SessionIds :
        /\ sessions[i].sellerId = sellerId
        /\ \A j \in SessionIds :
              sessions[j].sellerId = sellerId
                 => sessions[j].startTime <= sessions[i].startTime}

\* the row that findOne returns: one of the latest ones, NULL when there is none
ActiveSessionChoices(sellerId) ==
    IF ActiveSessionIds(sellerId) = {} THEN {NULL} ELSE ActiveSessionIds(sellerId)

\* a clock-out that also writes the route length of the session's logs
closeWorkSessionRecomputing(sellerId, activeId) ==
    IF activeId = NULL THEN sessions
    ELSE LET ids == {i \in LogIds : locationLogs[i].sessionId = activeId}
             history == CHOOSE h \in SessionLocationHistories(activeId) : TRUE
             route == SumDistances([k \in 1..Cardinality(ids) |->
                                        locationLogs[history[k]].location], 1)
         IN  [sessions EXCEPT ![activeId].endTime = now,
                              ![activeId].totalDistanceKm = route]

\* closeWorkSession with activeId the row findOne returned
closeWorkSession(sellerId, activeId) ==
    IF activeId # NULL THEN [sessions EXCEPT ![activeId].endTime = now] ELSE sessions

\* a setStoreStatus that answers a user without store profile like any other user,
\* with nothing to update
setStoreStatusLenient(userId, isOpen, activeId) ==
    LET sellerId == SellerOfUser(userId)
        resp == [NoResponse EXCEPT !.op = "setStoreStatus", !.status = "success",
                                   !.outcome = IF isOpen THEN "opened" ELSE "closed"]
    IN  IF sellerId = "none"
        THEN [resp |-> resp, sessions |-> sessions, sellerIsOpen |-> sellerIsOpen]
        ELSE [resp |-> [resp EXCEPT !.sessionId = IF isOpen THEN Len(sessions) + 1
                                                  ELSE activeId],
              sessions |-> IF isOpen THEN createWorkSession(sellerId)
                           ELSE closeWorkSession(sellerId, activeId),
              sellerIsOpen |-> [sellerIsOpen EXCEPT ![sellerId] = isOpen]]

\* setStoreStatus(userId, { isOpen }) with activeId the row closeWorkSession finds.
\* The outcome: the response and the tables afterwards.
setStoreStatus(userId, isOpen, activeId) ==
    LET sellerId == SellerOfUser(userId)
        resp == [NoResponse EXCEPT !.op = "setStoreStatus"]
    IN  IF sellerId = "none"
        THEN [resp |-> [resp EXCEPT !.outcome = "NotFoundException", !.status = "error",
                                    !.message = "Store profile not found"],
              sessions |-> sessions, sellerIsOpen |-> sellerIsOpen]
        ELSE [resp |-> [resp EXCEPT !.outcome = IF isOpen THEN "opened" ELSE "closed",
                                    !.status = "success",
                                    !.sessionId = IF isOpen THEN Len(sessions) + 1
                                                  ELSE activeId],
              sessions |-> IF isOpen THEN createWorkSession(sellerId)
                           ELSE closeWorkSession(sellerId, activeId),
              sellerIsOpen |-> [sellerIsOpen EXCEPT ![sellerId] = isOpen]]

\* the tables and the response after a setStoreStatus call
ApplyStoreResult(result) ==
    /\ Len(result.sessions) <= MaxSessions
    /\ sessions' = result.sessions
    /\ sellerIsOpen' = result.sellerIsOpen
    /\ last' = result.resp
    /\ UNCHANGED <<now, locationLogs, closing, inflight, regVars>>

\* PATCH store/status
SetStoreStatus(userId, isOpen) ==
    \E activeId \in (IF SellerOfUser(userId) = "none" \/ isOpen THEN {NULL}
                     ELSE ActiveSessionChoices(SellerOfUser(userId))) :
        ApplyStoreResult(setStoreStatus(userId, isOpen, activeId))

\* PATCH store/status with isOpen = false, up to the point where closeWorkSession's
\* findOne has returned a row: the call holds the entity it loaded (activeSession), and
\* other requests are served before it goes on.  `before` is the response that was the
\* latest one when the row was read.
BeginClose(userId) ==
    /\ SellerOfUser(userId) # "none"
    /\ Cardinality(closing) < MaxClosing
    /\ \E activeId \in ActiveSessionIds(SellerOfUser(userId)) :
          closing' = closing \cup {[userId |-> userId, id |-> activeId,
                                    activeSession |-> sessions[activeId],
                                    before |-> last]}
    /\ UNCHANGED <<now, sellerIsOpen, sessions, locationLogs, last, inflight, regVars>>

\* the rest of that call: activeSession.endTime = new Date(), sessionRepository.save
\* (activeSession), which writes every column in which the entity differs from the
\* row, then seller.isOpen = false and the response
FinishClose(c) ==
    /\ sessions' = [sessions EXCEPT ![c.id] = [c.activeSession EXCEPT !.endTime = now]]
    /\ sellerIsOpen' = [sellerIsOpen EXCEPT ![SellerOfUser(c.userId)] = FALSE]
    /\ last' = [NoResponse EXCEPT !.op = "setStoreStatus", !.outcome = "closed",
                                  !.status = "success", !.sessionId = c.id]
    /\ closing' = closing \ {c}
    /\ UNCHANGED <<now, locationLogs, inflight, regVars>>

(***************************************************************************)
(* TrackingGateway.handleUpdateLocation and TrackingController             *)
(***************************************************************************)
PayloadShapes == {"ok", "sellerIdNotString", "latLngMissing", "latLngNotNumber"}

\* the row findOne returns for the seller: one of the latest, NULL when there is none
LastLocationChoices(sellerId) ==
    IF LastLocationIds(sellerId) = {} THEN {NULL} ELSE LastLocationIds(sellerId)

\* the sessionId a caller may send: none, a row of seller_sessions, or a dangling id
SessionIdInputs == {NULL} \cup SessionIds \cup {DanglingSessionId}

\* the sellerId a caller may send: a seller, an identity without sellers row, none
SellerIdInputs == SellerIds \cup {UnknownSeller, ""}

\* the message of the BadRequestException of logLocationHistory
InvalidCoordinatesMessage ==
    "Invalid coordinates. Latitude must be between -90 and 90, longitude between -180 and 180"

\* the message of the WsException thrown from the catch block
WsErrorMessage(status) ==
    IF status = "BadRequestException" THEN InvalidCoordinatesMessage
    ELSE "Failed to process location update"

\* an ack without the catch block: an error of the service escapes as it is
UpdateLocationAckNoCatch(client, result) ==
    LET resp == [NoResponse EXCEPT !.op = "updateLocation"]
    IN  [resp |->
           IF result.status = "logged"
           THEN [resp EXCEPT !.outcome = "logged", !.status = "ok",
                             !.message = "Location logged successfully",
                             !.saved = Len(result.logs),
                             !.broadcast = TRUE,
                             !.broadcastTo =
                                 {c \in Channels : sockets[c] = "connected"} \ {client}]
           ELSE [resp EXCEPT !.outcome = result.status, !.status = result.status],
         logs |-> result.logs]

\* an ack that emits on the server instead of client.broadcast: the sender gets the
\* event too, also for a sample that was skipped
UpdateLocationAckServerEmit(client, result) ==
    LET resp == [NoResponse EXCEPT !.op = "updateLocation"]
    IN  [resp |->
           IF result.status \in {"logged", "skipped"}
           THEN [resp EXCEPT !.outcome = result.status,
                             !.status = IF result.status = "logged" THEN "ok" ELSE "skipped",
                             !.saved = IF result.status = "logged" THEN Len(result.logs)
                                       ELSE NULL,
                             !.broadcast = TRUE,
                             !.broadcastTo = {c \in Channels : sockets[c] = "connected"}]
           ELSE [resp EXCEPT !.outcome = result.status, !.status = "WsException",
                             !.message = WsErrorMessage(result.status)],
         logs |-> result.logs]

\* an updateLocation that gives up its result when its socket is gone by the time
\* findOne has answered
UpdateLocationAckIfConnected(client, result) ==
    LET resp == [NoResponse EXCEPT !.op = "updateLocation"]
    IN  IF sockets[client] # "connected"
        THEN [resp |-> [resp EXCEPT !.outcome = "cancelled", !.status = "WsException"],
              logs |-> locationLogs]
        ELSE [resp |->
                IF result.status = "logged"
                THEN [resp EXCEPT !.outcome = "logged", !.status = "ok",
                                  !.message = "Location logged successfully",
                                  !.saved = Len(result.logs),
                                  !.broadcast = TRUE,
                                  !.broadcastTo =
                                      {c \in Channels : sockets[c] = "connected"} \ {client}]
                ELSE IF result.status = "skipped"
                THEN [resp EXCEPT !.outcome = "skipped", !.status = "skipped",
                                  !.message =
                                      "Location update skipped (within optimization threshold)"]
                ELSE [resp EXCEPT !.outcome = result.status, !.status = "WsException",
                                  !.message = WsErrorMessage(result.status)],
              logs |-> result.logs]

\* handleUpdateLocation after logLocationHistory: broadcast and ack, or the catch block
UpdateLocationAck(client, result) ==
    LET resp == [NoResponse EXCEPT !.op = "updateLocation"]
    IN  [resp |->
           IF result.status = "logged"
           THEN [resp EXCEPT !.outcome = "logged", !.status = "ok",
                             !.message = "Location logged successfully",
                             !.saved = Len(result.logs),
                             !.broadcast = TRUE,
                             !.broadcastTo =
                                 {c \in Channels : sockets[c] = "connected"} \ {client}]
           ELSE IF result.status = "skipped"
           THEN [resp EXCEPT !.outcome = "skipped", !.status = "skipped",
                             !.message =
                                 "Location update skipped (within optimization threshold)"]
           ELSE [resp EXCEPT !.outcome = result.status, !.status = "WsException",
                             !.message = WsErrorMessage(result.status)],
         logs |-> result.logs]

\* the logs and the response after an ingest request
ApplyIngestResult(result) ==
    /\ Len(result.logs) <= MaxLogs
    /\ locationLogs' = result.logs
    /\ last' = result.resp
    /\ UNCHANGED <<now, sellerIsOpen, sessions, closing, inflight, regVars>>

\* handleUpdateLocation(client, { sellerId, lat, lng, sessionId }) with lastId the row
\* findOne returns.  The outcome: the ack or exception, and the logs afterwards.
handleUpdateLocation(client, shape, sellerId, point, sessionId, lastId) ==
    LET resp == [NoResponse EXCEPT !.op = "updateLocation"]
        \* a WsException thrown inside the try block: the catch block rethrows it
        thrown(message) ==
            [resp |-> [resp EXCEPT !.outcome = message, !.status = "WsException",
                                   !.message = WsErrorMessage("WsException")],
             logs |-> locationLogs]
    IN  IF sellerId = "" \/ shape = "sellerIdNotString" THEN thrown("Invalid sellerId")
        ELSE IF shape = "latLngMissing" THEN thrown("Missing latitude or longitude")
        ELSE IF shape = "latLngNotNumber"
        THEN thrown("Latitude and longitude must be numbers")
        ELSE UpdateLocationAck(client, logLocationHistory(sellerId, point[1], point[2],
                                                          sessionId, lastId))

\* the updateLocation event
HandleUpdateLocation(client, shape, sellerId, point, sessionId) ==
    /\ sockets[client] = "connected"
    /\ \E lastId \in LastLocationChoices(sellerId) :
          ApplyIngestResult(handleUpdateLocation(client, shape, sellerId, point,
                                                 sessionId, lastId))

\* logLocation after logLocationHistory: the reply, or the error response
LogLocationReply(result) ==
    LET resp == [NoResponse EXCEPT !.op = "logLocation"]
    IN  [resp |->
           IF result.status = "logged"
           THEN [resp EXCEPT !.outcome = "logged", !.status = "success",
                             !.message = "Location logged successfully",
                             !.saved = Len(result.logs)]
           ELSE IF result.status = "skipped"
           THEN [resp EXCEPT !.outcome = "skipped", !.status = "success",
                             !.message = "Location update skipped (optimization)"]
           ELSE [resp EXCEPT !.outcome = result.status, !.status = "error",
                             !.message = IF result.status = "BadRequestException"
                                         THEN InvalidCoordinatesMessage
                                         ELSE "Internal server error"],
         logs |-> result.logs]

\* TrackingController.logLocation(req, { latitude, longitude, sessionId }) with userId
\* the authenticated identity and lastId the row findOne returns
logLocation(userId, shape, point, sessionId, lastId) ==
    LET resp == [NoResponse EXCEPT !.op = "logLocation"]
    IN  IF shape = "latLngMissing"
        THEN [resp |-> [resp EXCEPT !.outcome = "BadRequestException", !.status = "error",
                                    !.message = "Latitude and longitude are required"],
              logs |-> locationLogs]
        ELSE LogLocationReply(logLocationHistory(userId, point[1], point[2],
                                                 sessionId, lastId))

\* POST seller/tracking/location
LogLocation(userId, shape, point, sessionId) ==
    \E lastId \in LastLocationChoices(userId) :
        ApplyIngestResult(logLocation(userId, shape, point, sessionId, lastId))

\* a sequence without its element at index k
RemoveAt(seq, k) == SubSeq(seq, 1, k - 1) \o SubSeq(seq, k + 1, Len(seq))

\* an updateLocation event up to the point where the findOne of logLocationHistory has
\* answered with row lastId: payload and coordinates have passed their checks, and the
\* handler waits while other events and requests are served
BeginUpdateLocation(client, sellerId, point, sessionId) ==
    /\ sockets[client] = "connected"
    /\ sellerId # ""
    /\ isValidCoordinate(point[1], point[2])
    /\ Len(inflight) < MaxInflight
    /\ \E lastId \in LastLocationChoices(sellerId) :
          inflight' = Append(inflight, [op |-> "updateLocation", client |-> client,
                                        sellerId |-> sellerId, point |-> point,
                                        sessionId |-> sessionId, lastId |-> lastId])
    /\ UNCHANGED <<now, sellerIsOpen, sessions, locationLogs, last, closing, regVars>>

\* POST seller/tracking/location up to the same point
BeginLogLocation(userId, point, sessionId) ==
    /\ isValidCoordinate(point[1], point[2])
    /\ Len(inflight) < MaxInflight
    /\ \E lastId \in LastLocationChoices(userId) :
          inflight' = Append(inflight, [op |-> "logLocation", client |-> "http",
                                        sellerId |-> userId, point |-> point,
                                        sessionId |-> sessionId, lastId |-> lastId])
    /\ UNCHANGED <<now, sellerIsOpen, sessions, locationLogs, last, closing, regVars>>

\* the rest of an upload: shouldLogLocation against the row that was read, create and
\* save, then the broadcast and ack or the HTTP response
FinishIngest(k) ==
    LET r == inflight[k]
        result == IF r.op = "updateLocation"
                  THEN handleUpdateLocation(r.client, "ok", r.sellerId, r.point,
                                            r.sessionId, r.lastId)
                  ELSE logLocation(r.sellerId, "ok", r.point, r.sessionId, r.lastId)
    IN  /\ Len(result.logs) <= MaxLogs
        /\ locationLogs' = result.logs
        /\ last' = result.resp
        /\ inflight' = RemoveAt(inflight, k)
        /\ UNCHANGED <<now, sellerIsOpen, sessions, closing, regVars>>

\* the sessions and the response after a distance request
ApplyDistanceResult(sessionId, result) ==
    /\ sessions' = result.sessions
    /\ last' = [NoResponse EXCEPT !.op = "calculateDistance",
                                  !.sessionId = sessionId,
                                  !.outcome = result.status,
                                  !.status = IF result.status = "ok" THEN "success"
                                             ELSE "error",
                                  !.distance = result.distance]
    /\ UNCHANGED <<now, sellerIsOpen, locationLogs, closing, inflight, regVars>>

\* GET seller/tracking/session/:sessionId/distance
CalculateDistance(sessionId) ==
    \E history \in SessionLocationHistories(sessionId) :
        ApplyDistanceResult(sessionId, calculateSessionDistance(sessionId, history))

\* getSessionHistory(sessionId) with `history` the rows find returned (log ids): the
\* response, for whoever calls
getSessionHistory(sessionId, history) ==
    [NoResponse EXCEPT !.op = "getSessionHistory", !.outcome = "ok",
                       !.status = "success", !.sessionId = sessionId,
                       !.data = [k \in 1..Len(history) |->
                                    LoadEntity(locationLogs[history[k]])]]

\* GET seller/tracking/session/:sessionId: the rows of the session as find loads them
GetSessionHistory(sessionId) ==
    /\ \E history \in SessionLocationHistories(sessionId) :
          last' = getSessionHistory(sessionId, history)
    /\ UNCHANGED <<now, sellerIsOpen, sessions, locationLogs, closing, inflight, regVars>>

\* the wall clock advances
Tick ==
    /\ now + TickSeconds <= MaxTicks * TickSeconds
    /\ now' = now + TickSeconds
    /\ UNCHANGED <<sellerIsOpen, sessions, locationLogs, last, closing, inflight, regVars>>

(***************************************************************************)
(* TrackingGateway: the registry of connected sellers                      *)
(***************************************************************************)
NoEvent ==
    [op |-> "none", client |-> "none", sellerId |-> "", status |-> "none",
     existing |-> "none", existingLive |-> FALSE, replacedFor |-> ""]

\* Map.get
MapGet(m, sellerId) ==
    IF \E i \in 1..Len(m) : m[i][1] = sellerId
    THEN m[CHOOSE i \in 1..Len(m) : m[i][1] = sellerId][2]
    ELSE "none"

\* Map.set: a present key keeps its place, a new key goes last
MapSet(m, sellerId, socket) ==
    IF \E i \in 1..Len(m) : m[i][1] = sellerId
    THEN [i \in 1..Len(m) |-> IF m[i][1] = sellerId THEN <<sellerId, socket>> ELSE m[i]]
    ELSE Append(m, <<sellerId, socket>>)

\* Map.delete
MapDelete(m, sellerId) == SelectSeq(m, LAMBDA e : e[1] # sellerId)

\* getConnectedSellers
getConnectedSellers == [i \in 1..Len(connectedSellers) |-> connectedSellers[i][1]]

\* a teardown that drops the oldest entry whatever socket it holds
handleDisconnectOldest(m, client) ==
    IF Len(m) > 0 THEN Tail(m) ELSE m

\* handleDisconnect(client) on the map m: the first entry of the socket is deleted
handleDisconnect(m, client) ==
    IF \E i \in 1..Len(m) : m[i][2] = client
    THEN LET first == CHOOSE i \in 1..Len(m) :
                          /\ m[i][2] = client
                          /\ \A j \in 1..(i - 1) : m[j][2] # client
         IN  MapDelete(m, m[first][1])
    ELSE m

\* a register without the check of sellerId: whatever came as sellerId is the key
handleRegisterUnchecked(client, shape, sellerId, sync) ==
    LET evt == [NoEvent EXCEPT !.op = "register", !.client = client, !.sellerId = sellerId]
        existingSocket == MapGet(connectedSellers, sellerId)
        closes == existingSocket # "none" /\ sockets[existingSocket] = "connected"
        afterClose == IF closes /\ sync
                      THEN handleDisconnect(connectedSellers, existingSocket)
                      ELSE connectedSellers
    IN  [evt |-> [evt EXCEPT !.status = "registered", !.existing = existingSocket,
                             !.existingLive = closes],
         map |-> MapSet(afterClose, sellerId, client),
         sockets |-> IF closes THEN [sockets EXCEPT ![existingSocket] = "disconnected"]
                     ELSE sockets,
         pending |-> IF closes /\ ~sync
                     THEN pendingDisconnect
                            \cup {[socket |-> existingSocket, replacedFor |-> sellerId]}
                     ELSE pendingDisconnect]

\* a register that installs the new socket and leaves the old one connected
handleRegisterKeepOld(client, shape, sellerId, sync) ==
    LET evt == [NoEvent EXCEPT !.op = "register", !.client = client, !.sellerId = sellerId]
        existingSocket == MapGet(connectedSellers, sellerId)
    IN  IF sellerId = "" \/ shape = "sellerIdNotString"
        THEN [evt |-> [evt EXCEPT !.status = "WsException"],
              map |-> connectedSellers, sockets |-> sockets, pending |-> pendingDisconnect]
        ELSE [evt |-> [evt EXCEPT !.status = "registered", !.existing = existingSocket,
                                  !.existingLive = (existingSocket # "none"
                                                    /\ sockets[existingSocket] = "connected")],
              map |-> MapSet(connectedSellers, sellerId, client),
              sockets |-> sockets, pending |-> pendingDisconnect]

\* handleRegister(client, { sellerId }); sync: the old socket's disconnect event is
\* handled inside existingSocket.disconnect() (else it is queued).
\* The outcome: the ack or exception, and the registry state afterwards.
handleRegister(client, shape, sellerId, sync) ==
    LET evt == [NoEvent EXCEPT !.op = "register", !.client = client, !.sellerId = sellerId]
    IN  IF sellerId = "" \/ shape = "sellerIdNotString"
        THEN [evt |-> [evt EXCEPT !.status = "WsException"],
              map |-> connectedSellers, sockets |-> sockets, pending |-> pendingDisconnect]
        ELSE LET existingSocket == MapGet(connectedSellers, sellerId)
                 closes == existingSocket # "none" /\ sockets[existingSocket] = "connected"
                 afterClose == IF closes /\ sync
                               THEN handleDisconnect(connectedSellers, existingSocket)
                               ELSE connectedSellers
             IN  [evt |-> [evt EXCEPT !.status = "registered", !.existing = existingSocket,
                                      !.existingLive = closes],
                  map |-> MapSet(afterClose, sellerId, client),
                  sockets |-> IF closes
                              THEN [sockets EXCEPT ![existingSocket] = "disconnected"]
                              ELSE sockets,
                  pending |-> IF closes /\ ~sync
                              THEN pendingDisconnect
                                     \cup {[socket |-> existingSocket, replacedFor |-> sellerId]}
                              ELSE pendingDisconnect]

\* handleConnection: a client connects to the tracking namespace
HandleConnection(client) ==
    /\ sockets[client] = "new"
    /\ sockets' = [sockets EXCEPT ![client] = "connected"]
    /\ lastReg' = [NoEvent EXCEPT !.op = "connect", !.client = client, !.status = "ok"]
    /\ UNCHANGED <<dbVars, connectedSellers, pendingDisconnect>>

\* the register event
HandleRegister(client, shape, sellerId) ==
    /\ sockets[client] = "connected"
    /\ \E sync \in BOOLEAN :
          LET result == handleRegister(client, shape, sellerId, sync)
          IN  /\ connectedSellers' = result.map
              /\ sockets' = result.sockets
              /\ pendingDisconnect' = result.pending
              /\ lastReg' = result.evt
    /\ UNCHANGED dbVars

\* the client drops its connection; the transport queues the disconnect event
ClientDisconnect(client) ==
    /\ sockets[client] = "connected"
    /\ sockets' = [sockets EXCEPT ![client] = "disconnected"]
    /\ pendingDisconnect' = pendingDisconnect \cup {[socket |-> client, replacedFor |-> ""]}
    /\ lastReg' = [NoEvent EXCEPT !.op = "drop", !.client = client, !.status = "ok"]
    /\ UNCHANGED <<dbVars, connectedSellers>>

\* the disconnect event of a socket is handled
HandleDisconnect(p) ==
    /\ p \in pendingDisconnect
    /\ connectedSellers' = handleDisconnect(connectedSellers, p.socket)
    /\ pendingDisconnect' = pendingDisconnect \ {p}
    /\ lastReg' = [NoEvent EXCEPT !.op = "disconnect", !.client = p.socket,
                                  !.status = "ok", !.replacedFor = p.replacedFor]
    /\ UNCHANGED <<dbVars, sockets>>

(***************************************************************************)
(* Specifications                                                          *)
(***************************************************************************)
\* the state after construction: empty tables, no client
InitDb ==
    /\ now = 0
    /\ sellerIsOpen = [s \in SellerIds |-> FALSE]
    /\ sessions = <<>>
    /\ locationLogs = <<>>
    /\ last = NoResponse
    /\ closing = {}
    /\ inflight = <<>>

InitRegistry ==
    /\ connectedSellers = <<>>
    /\ sockets = [c \in Channels |-> "new"]
    /\ pendingDisconnect = {}
    /\ lastReg = NoEvent

Init == InitDb /\ InitRegistry

\* the storefront: clock-in / clock-out of every user
NextStore ==
    \/ Tick
    \/ \E u \in Users, isOpen \in BOOLEAN : SetStoreStatus(u, isOpen)

SpecStore == Init /\ [][NextStore]_vars

\* the registry: connect, register, drop, disconnect
NextRegistry ==
    \/ \E c \in Channels : HandleConnection(c)
    \/ \E c \in Channels, s \in SellerIds \cup {""} : HandleRegister(c, "ok", s)
    \/ \E c \in Channels, s \in SellerIds : HandleRegister(c, "sellerIdNotString", s)
    \/ \E c \in Channels : ClientDisconnect(c)
    \/ \E p \in pendingDisconnect : HandleDisconnect(p)

SpecRegistry == Init /\ [][NextRegistry]_vars

\* ingestion: both sellers have clocked in at time 0 (sessions 1 and 2) and two
\* clients are connected; samples arrive over the socket and over POST
InitIngest ==
    /\ now = 0
    /\ sellerIsOpen = [s \in SellerIds |-> TRUE]
    /\ sessions = <<[sellerId |-> "s1", startTime |-> 0, endTime |-> NULL,
                     totalDistanceKm |-> <<0, 0>>],
                    [sellerId |-> "s2", startTime |-> 0, endTime |-> NULL,
                     totalDistanceKm |-> <<0, 0>>]>>
    /\ locationLogs = <<>>
    /\ last = NoResponse
    /\ closing = {}
    /\ inflight = <<>>
    /\ connectedSellers = <<>>
    /\ sockets = [c \in Channels |-> IF c = "c3" THEN "new" ELSE "connected"]
    /\ pendingDisconnect = {}
    /\ lastReg = NoEvent

NextIngest ==
    \/ Tick
    \/ \E c \in Channels, s \in SellerIdInputs, p \in SamplePoints, sid \in SessionIdInputs :
          HandleUpdateLocation(c, "ok", s, p, sid)
    \/ \E c \in Channels, shape \in PayloadShapes \ {"ok"}, s \in SellerIds :
          HandleUpdateLocation(c, shape, s, PointA, NULL)
    \/ \E u \in SellerIds \cup {UnknownSeller}, p \in SamplePoints, sid \in SessionIdInputs :
          LogLocation(u, "ok", p, sid)
    \/ \E u \in SellerIds : LogLocation(u, "latLngMissing", PointA, NULL)

SpecIngest == InitIngest /\ [][NextIngest]_vars

\* one seller's shifts end to end: open, samples, distance, close
NextShift ==
    \/ Tick
    \/ \E isOpen \in BOOLEAN : SetStoreStatus("u1", isOpen)
    \/ \E p \in {PointA, PointC}, sid \in {NULL} \cup SessionIds :
          LogLocation("s1", "ok", p, sid)
    \/ \E sid \in SessionIds \cup {DanglingSessionId} : CalculateDistance(sid)

Spec == Init /\ [][NextShift]_vars

\* one seller's first two shifts with the clock-out in its two steps, so that sample
\* uploads and distance requests are served between the read and the write of the
\* session row
NextClose ==
    \/ Tick
    \/ Len(sessions) < MaxSessions - 1 /\ SetStoreStatus("u1", TRUE)
    \/ BeginClose("u1")
    \/ \E c \in closing : FinishClose(c)
    \/ \E p \in {PointA, PointC}, sid \in SessionIds : LogLocation("s1", "ok", p, sid)
    \/ \E sid \in SessionIds : CalculateDistance(sid)

SpecClose == Init /\ [][NextClose]_vars

\* two clients on the tracking namespace: registry events and updateLocation messages
\* of every kind of outcome (accepted, rejected payload, rejected coordinates,
\* failure in the policy, failure in storage)
ChannelPair == {"c1", "c2"}

NextChannel ==
    \/ \E c \in ChannelPair : HandleConnection(c)
    \/ \E c \in ChannelPair, s \in SellerIds : HandleRegister(c, "ok", s)
    \/ \E c \in ChannelPair : ClientDisconnect(c)
    \/ \E p \in pendingDisconnect : HandleDisconnect(p)
    \/ \E c \in ChannelPair, s \in {"s1", UnknownSeller},
          p \in {PointA, <<200000000, 20000000>>}, sid \in {NULL, DanglingSessionId} :
          HandleUpdateLocation(c, "ok", s, p, sid)
    \/ \E c \in ChannelPair : HandleUpdateLocation(c, "latLngMissing", "s1", PointA, NULL)

SpecChannel == Init /\ [][NextChannel]_vars

\* every operation of the core on one seller and one client: clock-in and clock-out,
\* samples over the socket and over HTTP, the history and distance requests, and the
\* registry events
NextCore ==
    \/ Tick
    \/ \E isOpen \in BOOLEAN :
          (isOpen => Len(sessions) < MaxSessions - 1) /\ SetStoreStatus("u1", isOpen)
    \/ HandleConnection("c1")
    \/ HandleRegister("c1", "ok", "s1")
    \/ ClientDisconnect("c1")
    \/ \E p \in pendingDisconnect : HandleDisconnect(p)
    \/ \E sid \in {NULL} \cup SessionIds : HandleUpdateLocation("c1", "ok", "s1", PointA, sid)
    \/ \E sid \in {NULL} \cup SessionIds : LogLocation("s1", "ok", PointC, sid)
    \/ \E sid \in SessionIds : GetSessionHistory(sid)
    \/ \E sid \in SessionIds : CalculateDistance(sid)

SpecCore == Init /\ [][NextCore]_vars

\* sample coordinates for the distance function: the poles, the equator, the
\* antimeridian, the origin, and pairs a few metres apart (micro-degrees)
HaversineLatitudes == {-90000000, -10000000, 0, 10000000, 10000010, 10000300, 90000000}

HaversineLongitudes == {-180000000, 0, 20000000, 20000010, 180000000}

HaversinePoints == HaversineLatitudes \X HaversineLongitudes

\* the arguments of one call of haversineDistance, in `data`
InitHaversine ==
    /\ now = 0
    /\ sellerIsOpen = [s \in SellerIds |-> FALSE]
    /\ sessions = <<>>
    /\ locationLogs = <<>>
    /\ \E p1, p2 \in HaversinePoints : last = [NoResponse EXCEPT !.data = <<p1, p2>>]
    /\ closing = {}
    /\ inflight = <<>>
    /\ InitRegistry

\* the call: the result in `distance`
HaversineCall ==
    /\ last.op = "none"
    /\ last' = [last EXCEPT !.op = "haversineDistance", !.outcome = "ok",
                            !.distance = haversineDistance(last.data[1][1], last.data[1][2],
                                                           last.data[2][1], last.data[2][2])]
    /\ UNCHANGED <<now, sellerIsOpen, sessions, locationLogs, closing, inflight, regVars>>

NextHaversine == HaversineCall

SpecHaversine == InitHaversine /\ [][NextHaversine]_vars

(***************************************************************************)
(* SpatialPointTransformer.  A number is a decimal <<m, e>> = m * 10^e with  *)
(* m not a multiple of 10 (0 is <<0, 0>>); a string is a sequence of its      *)
(* characters, the literal "POINT(" being one element.                        *)
(***************************************************************************)
DigitChars == <<"0", "1", "2", "3", "4", "5", "6", "7", "8", "9">>

DigitSet == {DigitChars[i] : i \in 1..10}

RECURSIVE Canonical(_, _)
Canonical(m, e) ==
    IF m = 0 THEN <<0, 0>>
    ELSE IF Abs(m) % 10 = 0 THEN Canonical(Sgn(m) * (Abs(m) \div 10), e + 1)
    ELSE <<m, e>>

RECURSIVE DigitsOf(_)
DigitsOf(n) ==
    IF n < 10 THEN <<DigitChars[n + 1]>>
    ELSE Append(DigitsOf(n \div 10), DigitChars[(n % 10) + 1])

Zeros(n) == [i \in 1..n |-> "0"]

\* Number::toString of ECMAScript, as the template literal applies it: decimal
\* notation for 1e-6 <= |x| < 1e21, exponent notation below and above
NumberToString(x) ==
    LET digits == DigitsOf(Abs(x[1]))
        k == Len(digits)
        n == k + x[2]
        sign == IF x[1] < 0 THEN <<"-">> ELSE <<>>
    IN  IF x[1] = 0 THEN <<"0">>
        ELSE sign \o
             (IF k <= n /\ n <= 21 THEN digits \o Zeros(n - k)
              ELSE IF 0 < n /\ n <= 21
              THEN SubSeq(digits, 1, n) \o <<".">> \o SubSeq(digits, n + 1, k)
              ELSE IF -6 < n /\ n <= 0 THEN <<"0", ".">> \o Zeros(-n) \o digits
              ELSE (IF k = 1 THEN digits
                    ELSE <<digits[1], ".">> \o SubSeq(digits, 2, k))
                   \o <<"e", IF n - 1 < 0 THEN "-" ELSE "+">> \o DigitsOf(Abs(n - 1)))

\* SpatialPointTransformer.to(value) for a Point object: `POINT(${longitude} ${latitude})`
to(value) ==
    <<"POINT(">> \o NumberToString(value.longitude) \o <<" ">>
                \o NumberToString(value.latitude) \o <<")">>

\* the index of the last element of the run of characters of `class` that starts at i
\* (i - 1 when there is none)
RECURSIVE RunEnd(_, _, _)
RunEnd(str, i, class) ==
    IF i <= Len(str) /\ str[i] \in class THEN RunEnd(str, i + 1, class) ELSE i - 1

\* NaN: no decimal (a decimal with mantissa 0 has exponent 0)
NaN == <<0, 1>>

\* what from returns when it returns undefined
UndefinedPoint == [defined |-> FALSE, latitude |-> NaN, longitude |-> NaN]

RECURSIVE DigitsValue(_)
DigitsValue(digits) ==
    IF digits = <<>> THEN 0
    ELSE 10 * DigitsValue(SubSeq(digits, 1, Len(digits) - 1))
         + (CHOOSE d \in 0..9 : DigitChars[d + 1] = digits[Len(digits)])

\* parseFloat on a string of the characters - . 0..9: the longest prefix that is a
\* decimal literal
parseFloat(str) ==
    LET s == IF str # <<>> /\ str[1] = "-" THEN 1 ELSE 0
        intEnd == RunEnd(str, s + 1, DigitSet)
        hasDot == intEnd + 1 <= Len(str) /\ str[intEnd + 1] = "."
        fracEnd == IF hasDot THEN RunEnd(str, intEnd + 2, DigitSet) ELSE intEnd
        int == SubSeq(str, s + 1, intEnd)
        frac == IF hasDot THEN SubSeq(str, intEnd + 2, fracEnd) ELSE <<>>
    IN  IF int = <<>> /\ frac = <<>> THEN NaN
        ELSE Canonical((IF s = 1 THEN -1 ELSE 1) * DigitsValue(int \o frac), -Len(frac))

\* value.match(/POINT\s*\(\s*([-\d.]+)\s+([-\d.]+)\s*\)/i): the two groups, or <<>>
\* for null
MatchPoint(value) ==
    LET class == DigitSet \cup {"-", "."}
        a == RunEnd(value, 2, {" "})
        b == RunEnd(value, a + 1, class)
        c == RunEnd(value, b + 1, {" "})
        d == RunEnd(value, c + 1, class)
        f == RunEnd(value, d + 1, {" "})
    IN  IF /\ value # <<>> /\ value[1] = "POINT("
           /\ b > a /\ c > b /\ d > c
           /\ f + 1 <= Len(value) /\ value[f + 1] = ")"
        THEN <<SubSeq(value, a + 1, b), SubSeq(value, c + 1, d)>>
        ELSE <<>>

\* the decimal x is greater than / less than the integer b
DecimalGt(x, b) ==
    IF x[2] >= 0 THEN x[1] * Pow10(x[2]) > b ELSE x[1] > b * Pow10(-x[2])

DecimalLt(x, b) ==
    IF x[2] >= 0 THEN x[1] * Pow10(x[2]) < b ELSE x[1] < b * Pow10(-x[2])

\* parseWKBPoint(buffer).  A buffer is <<"Buffer", length, byte 0, X, Y>>: its length
\* in bytes, its byte-order flag, and the two doubles that follow the SRID and the
\* geometry type, written in the byte order that the flag declares.
parseWKBPoint(buffer) ==
    IF buffer[2] < 25 THEN UndefinedPoint
    ELSE IF buffer[3] # 1 THEN UndefinedPoint
    ELSE IF \/ buffer[4] = NaN \/ buffer[5] = NaN
            \/ DecimalLt(buffer[4], -180) \/ DecimalGt(buffer[4], 180)
            \/ DecimalLt(buffer[5], -90) \/ DecimalGt(buffer[5], 90)
    THEN UndefinedPoint
    ELSE [defined |-> TRUE, latitude |-> buffer[5], longitude |-> buffer[4]]

\* SpatialPointTransformer.from(value) for a Buffer or a string
from(value) ==
    IF value = <<>> THEN UndefinedPoint
    ELSE IF value[1] = "Buffer" THEN parseWKBPoint(value)
    ELSE IF MatchPoint(value) = <<>> THEN UndefinedPoint
    ELSE [defined |-> TRUE,
          latitude |-> parseFloat(MatchPoint(value)[2]),
          longitude |-> parseFloat(MatchPoint(value)[1])]

\* latitudes: 0, 10, 10.00001, -90, 90, 0.000001, 0.0000001, -0.00000025, 45.5, -0.5
CodecLatitudes ==
    {<<0, 0>>, <<1, 1>>, <<1000001, -5>>, <<-9, 1>>, <<9, 1>>, <<1, -6>>, <<1, -7>>,
     <<-25, -8>>, <<455, -1>>, <<-5, -1>>}

\* longitudes: 0, 20, -180, 180, 0.0000001, 20.00001, -123.45, 0.000001, 0.000000005,
\* 106.75
CodecLongitudes ==
    {<<0, 0>>, <<2, 1>>, <<-18, 1>>, <<18, 1>>, <<1, -7>>, <<2000001, -5>>,
     <<-12345, -2>>, <<1, -6>>, <<5, -9>>, <<10675, -2>>}

\* a point to store, in `data`
InitCodec ==
    /\ now = 0
    /\ sellerIsOpen = [s \in SellerIds |-> FALSE]
    /\ sessions = <<>>
    /\ locationLogs = <<>>
    /\ \E lat \in CodecLatitudes, lng \in CodecLongitudes :
          last = [NoResponse EXCEPT !.data = <<[latitude |-> lat, longitude |-> lng]>>]
    /\ closing = {}
    /\ inflight = <<>>
    /\ InitRegistry

\* the point is written: to(value) gives the column value
TransformerTo ==
    /\ last.op = "none"
    /\ last' = [last EXCEPT !.op = "to", !.data = Append(last.data, to(last.data[1]))]
    /\ UNCHANGED <<now, sellerIsOpen, sessions, locationLogs, closing, inflight, regVars>>

\* the column value is read back: from(value) gives the point
TransformerFrom ==
    /\ last.op = "to"
    /\ last' = [last EXCEPT !.op = "from", !.data = Append(last.data, from(last.data[2]))]
    /\ UNCHANGED <<now, sellerIsOpen, sessions, locationLogs, closing, inflight, regVars>>

NextCodec == TransformerTo \/ TransformerFrom

SpecCodec == InitCodec /\ [][NextCodec]_vars

\* stored doubles: X = 20, 200, NaN, -180, 180.0001; Y = 10, 95, -90
StoredX == {<<2, 1>>, <<2, 2>>, NaN, <<-18, 1>>, <<1800001, -4>>}

StoredY == {<<1, 1>>, <<95, 0>>, <<-9, 1>>}

\* binary column values: empty, one byte short, exact and longer, with either byte-order
\* flag
StoredBuffers ==
    {<<"Buffer", length, flag, x, y>> :
        length \in {0, 24, 25, 33}, flag \in {0, 1}, x \in StoredX, y \in StoredY}

\* textual column values: POINT(x y) of numbers in and out of range, and texts that
\* are no point
StoredStrings ==
    {<<"POINT(">> \o NumberToString(x) \o <<" ">> \o NumberToString(y) \o <<")">> :
        x \in StoredX \ {NaN}, y \in StoredY}
    \cup {<<>>, <<"POINT(", "-", " ", ".", ")">>, <<"POINT(", "2", "0", ")">>,
          <<"P", "O", "I">>, <<"POINT(", "2", "0", " ", "1", "0">>}

\* a column value as the driver hands it to the transformer, in `data`
InitDecode ==
    /\ now = 0
    /\ sellerIsOpen = [s \in SellerIds |-> FALSE]
    /\ sessions = <<>>
    /\ locationLogs = <<>>
    /\ \E value \in StoredBuffers \cup StoredStrings :
          last = [NoResponse EXCEPT !.op = "stored", !.data = <<value>>]
    /\ closing = {}
    /\ inflight = <<>>
    /\ InitRegistry

\* the column value is read: from(value)
DecodeStored ==
    /\ last.op = "stored"
    /\ last' = [last EXCEPT !.op = "decoded", !.data = Append(last.data, from(last.data[1]))]
    /\ UNCHANGED <<now, sellerIsOpen, sessions, locationLogs, closing, inflight, regVars>>

NextDecode == DecodeStored

SpecDecode == InitDecode /\ [][NextDecode]_vars

\* a sample upload of seller s, over the socket or over HTTP
IngestSample(s, point) ==
    \E sid \in {NULL} \cup SessionIds :
        \/ \E c \in ChannelPair : HandleUpdateLocation(c, "ok", s, point, sid)
        \/ LogLocation(s, "ok", point, sid)

\* the time passes between the two samples
ScenarioWait ==
    /\ last.op \in {"updateLocation", "logLocation"}
    /\ last.outcome = "logged"
    /\ Len(locationLogs) = 1
    /\ now = locationLogs[1].recordedAt
    /\ now' = now + ScenarioDelaySeconds
    /\ UNCHANGED <<sellerIsOpen, sessions, locationLogs, last, closing, inflight, regVars>>

\* the second sample is due: the first one is stored and the delay has passed
SecondSampleDue ==
    /\ Len(locationLogs) = 1
    /\ now = locationLogs[1].recordedAt + ScenarioDelaySeconds
    /\ last.op \in {"updateLocation", "logLocation"}
    /\ last.outcome = "logged"

\* a seller's first shift, at any time of the day and over any transport: open the
\* store, upload (10.0, 20.0), upload (10.00001, 20.00001) five seconds later, close
NextScenario ==
    \/ sessions = <<>> /\ Tick
    \/ \E c \in ChannelPair : sessions = <<>> /\ HandleConnection(c)
    \/ \E u \in StoreOwners : sessions = <<>> /\ SetStoreStatus(u, TRUE)
    \/ /\ Len(sessions) = 1 /\ locationLogs = <<>> /\ last.outcome = "opened"
       /\ IngestSample(sessions[1].sellerId, PointA)
    \/ ScenarioWait
    \/ SecondSampleDue /\ IngestSample(sessions[1].sellerId, PointB)
    \/ /\ Len(sessions) = 1 /\ sessions[1].endTime = NULL
       /\ locationLogs # <<>>
       /\ now = locationLogs[1].recordedAt + ScenarioDelaySeconds
       /\ ~SecondSampleDue
       /\ \E u \in StoreOwners :
             SellerOfUser(u) = sessions[1].sellerId /\ SetStoreStatus(u, FALSE)

SpecScenario == Init /\ [][NextScenario]_vars

\* one seller's uploads with their awaits, over two sockets and over HTTP, while the
\* sockets connect, register and drop
NextFlight ==
    \/ Tick
    \/ \E c \in ChannelPair : HandleConnection(c)
    \/ \E c \in ChannelPair : HandleRegister(c, "ok", "s1")
    \/ \E c \in ChannelPair : ClientDisconnect(c)
    \/ \E p \in pendingDisconnect : HandleDisconnect(p)
    \/ BeginUpdateLocation("c1", "s1", PointA, NULL)
    \/ BeginLogLocation("s1", PointA, NULL)
    \/ \E k \in 1..Len(inflight) : FinishIngest(k)

SpecFlight == Init /\ [][NextFlight]_vars

(***************************************************************************)
(* Properties                                                              *)
(***************************************************************************)
\* the rows of seller_sessions of a seller that have no end time
OpenSessionIds(sellerId) ==
    {i \in SessionIds : sessions[i].sellerId = sellerId /\ sessions[i].endTime = NULL}

\* C1: after any sequence of setStoreStatus calls, every seller has at most one
\* session row whose endTime is null.
C1_AtMostOneOpenSession ==
    \A s \in SellerIds : Cardinality(OpenSessionIds(s)) <= 1

\* the route length over the persisted logs of a session, in recordedAt order
RouteDistances(sessionId) ==
    {SumDistances([k \in 1..Len(h) |-> locationLogs[h[k]].location], 1) :
        h \in SessionLocationHistories(sessionId)}

\* the last request was a clock-out that closed a session
ClosedASession ==
    last.op = "setStoreStatus" /\ last.outcome = "closed" /\ last.sessionId # NULL

ElapsedMs(lastId) == getTime(now) - getTime(locationLogs[lastId].recordedAt)

\* the persisted sample lastId is more than MIN_DISTANCE_METERS from the point
FartherThanMinDistance(lastId, point) ==
    FGt(FMul(haversineDistance(locationLogs[lastId].location[1],
                               locationLogs[lastId].location[2], point[1], point[2]),
             FromInt(1000)),
        FromInt(MIN_DISTANCE_METERS))

\* C3: an ingest call with valid coordinates for a seller whose last persisted sample
\* is more than 2 minutes old or more than 20 m away persists the sample as a new row.
C3_NoQualifyingSampleDropped ==
    \A s \in SellerIds, p \in ValidPoints, sid \in {NULL} \cup SessionIds :
        \A lastId \in LastLocationIds(s) :
            (ElapsedMs(lastId) > MIN_TIME_INTERVAL_MS \/ FartherThanMinDistance(lastId, p))
               => LET result == logLocationHistory(s, p[1], p[2], sid, lastId)
                  IN  /\ result.status = "logged"
                      /\ Len(result.logs) = Len(locationLogs) + 1

\* C4: an ingest call with valid coordinates for a seller whose last persisted sample
\* is at most 2 minutes old and at most 20 m away returns the skipped result and
\* leaves the logs unchanged.
C4_WithinThresholdsSkipped ==
    \A s \in SellerIds, p \in ValidPoints, sid \in {NULL} \cup SessionIds :
        \A lastId \in LastLocationIds(s) :
            (ElapsedMs(lastId) <= MIN_TIME_INTERVAL_MS /\ ~FartherThanMinDistance(lastId, p))
               => LET result == logLocationHistory(s, p[1], p[2], sid, lastId)
                  IN  /\ result.status = "skipped"
                      /\ result.logs = locationLogs

\* the outcome of a first ingest call: the sample is the new last row of the logs
FirstSampleAccepted(s, p, sid) ==
    LET result == logLocationHistory(s, p[1], p[2], sid, NULL)
    IN  /\ result.status = "logged"
        /\ result.logs = Append(locationLogs,
                                [sellerId |-> s, sessionId |-> sid, recordedAt |-> now,
                                 location |-> p])

\* C5 as stated: for a seller without any persisted log, an ingest call with valid
\* coordinates persists the sample whatever the coordinates, the time and the sessionId.
C5_FirstSampleAlwaysAccepted ==
    \A s \in SellerIds, p \in ValidPoints, sid \in SessionIdInputs :
        LastLocationIds(s) = {} => FirstSampleAccepted(s, p, sid)

\* C5 amended: for a seller without any persisted log, an ingest call with valid
\* coordinates and a sessionId that is absent or names a row of seller_sessions
\* persists the sample, whatever the coordinates and the time.
C5_FirstSampleAcceptedInSession ==
    \A s \in SellerIds, p \in ValidPoints, sid \in {NULL} \cup SessionIds :
        LastLocationIds(s) = {} => FirstSampleAccepted(s, p, sid)

\* the first sample of a seller has just been saved, with a session, after time 0
C5_Witness ==
    /\ last.outcome = "logged"
    /\ last.saved \in LogIds
    /\ locationLogs[last.saved].sessionId # NULL
    /\ locationLogs[last.saved].recordedAt > 0
    /\ \A j \in LogIds :
          j # last.saved => locationLogs[j].sellerId # locationLogs[last.saved].sellerId

\* C6: an ingest call with a latitude outside [-90, 90] or a longitude outside
\* [-180, 180] fails with the invalid-coordinates error on the updateLocation path
\* and on the POST path, leaves the logs as they were and broadcasts nothing.
C6_InvalidCoordinatesRejected ==
    \A s \in SellerIds \cup {UnknownSeller}, p \in InvalidPoints, sid \in SessionIdInputs :
        \A lastId \in LastLocationChoices(s) :
            /\ logLocationHistory(s, p[1], p[2], sid, lastId)
                  = [status |-> "BadRequestException", logs |-> locationLogs]
            /\ \A c \in Channels :
                  LET ws == handleUpdateLocation(c, "ok", s, p, sid, lastId)
                  IN  /\ ws.logs = locationLogs
                      /\ ws.resp.outcome = "BadRequestException"
                      /\ ws.resp.status = "WsException"
                      /\ ws.resp.message = InvalidCoordinatesMessage
                      /\ ~ws.resp.broadcast
                      /\ ws.resp.broadcastTo = {}
            /\ LET post == logLocation(s, "ok", p, sid, lastId)
               IN  /\ post.logs = locationLogs
                   /\ post.resp.outcome = "BadRequestException"
                   /\ post.resp.status = "error"
                   /\ post.resp.message = InvalidCoordinatesMessage
                   /\ ~post.resp.broadcast

\* an updateLocation with invalid coordinates has just been rejected while the seller
\* has a persisted sample
C6_Witness ==
    /\ last.op = "updateLocation"
    /\ last.outcome = "BadRequestException"
    /\ last.message = InvalidCoordinatesMessage
    /\ Len(locationLogs) > 0

\* the number of registry entries of a seller
EntriesOf(sellerId) ==
    Cardinality({i \in 1..Len(connectedSellers) : connectedSellers[i][1] = sellerId})

\* the last event was a register for a seller that was mapped to another live socket
ReplacedLiveSocket ==
    /\ lastReg.op = "register"
    /\ lastReg.status = "registered"
    /\ lastReg.existing \notin {"none", lastReg.client}
    /\ lastReg.existingLive

\* C7: when register(sellerId) arrives on a socket while sellerId is mapped to another
\* live socket, the old socket is disconnected and the registry then maps sellerId to
\* the new socket and to no other.
C7_LastRegistrationWins ==
    ReplacedLiveSocket
        => /\ sockets[lastReg.existing] = "disconnected"
           /\ sockets[lastReg.client] = "connected"
           /\ MapGet(connectedSellers, lastReg.sellerId) = lastReg.client
           /\ EntriesOf(lastReg.sellerId) = 1

\* a register has just replaced a live socket
C7_Witness ==
    /\ ReplacedLiveSocket
    /\ sockets[lastReg.existing] = "disconnected"
    /\ MapGet(connectedSellers, lastReg.sellerId) = lastReg.client

\* C8: no socket is registered under two sellerIds and no sellerId maps to two sockets.
C8_RegistryOneToOne ==
    \A i, j \in 1..Len(connectedSellers) :
        i # j => /\ connectedSellers[i][1] # connectedSellers[j][1]
                 /\ connectedSellers[i][2] # connectedSellers[j][2]

\* the sockets whose disconnect event has been handled
TornDown ==
    {c \in Channels :
        sockets[c] = "disconnected" /\ \A p \in pendingDisconnect : p.socket # c}

\* C9: once the disconnect event of a socket has been handled no registry entry refers
\* to the socket, so getConnectedSellers lists only sellers whose socket is live.
C9_NoEntryAfterTeardown ==
    /\ \A i \in 1..Len(connectedSellers) : connectedSellers[i][2] \notin TornDown
    /\ \A i \in 1..Len(getConnectedSellers) :
          MapGet(connectedSellers, getConnectedSellers[i]) \notin TornDown

\* C10: handling the disconnect event of a socket removes no entry of another socket
\* (the entry of the socket that replaced it included), and leaves the registry
\* unchanged when the socket has no entry.
C10_TeardownByChannelIdentity ==
    [][lastReg'.op = "disconnect"
          => LET others == {i \in 1..Len(connectedSellers) :
                               connectedSellers[i][2] # lastReg'.client}
             IN  /\ \A i \in others :
                       MapGet(connectedSellers', connectedSellers[i][1])
                          = connectedSellers[i][2]
                 /\ (others = 1..Len(connectedSellers)
                        => connectedSellers' = connectedSellers)]_vars

\* the disconnect event of a replaced socket has been handled after the new socket
\* was installed, and the seller is still mapped to the new live socket
C10_Witness ==
    /\ lastReg.op = "disconnect"
    /\ lastReg.replacedFor # ""
    /\ MapGet(connectedSellers, lastReg.replacedFor) \notin {"none", lastReg.client}
    /\ sockets[MapGet(connectedSellers, lastReg.replacedFor)] = "connected"

\* the seller's last persisted sample lastId is at most MIN_TIME_INTERVAL_MS old and
\* at most MIN_DISTANCE_METERS from the point: the sample the policy skips
SkippedByPolicy(lastId, point) ==
    ElapsedMs(lastId) <= MIN_TIME_INTERVAL_MS /\ ~FartherThanMinDistance(lastId, point)

\* C11: an updateLocation that the policy skips is acknowledged with status "skipped"
\* (POST location: a success response with null data), and an updateLocation with
\* invalid input is rejected, never acknowledged with "ok" or "skipped".
C11_SkippedIsSuccess ==
    /\ \A c \in Channels, s \in SellerIds, p \in ValidPoints, sid \in {NULL} \cup SessionIds :
          \A lastId \in LastLocationIds(s) :
              SkippedByPolicy(lastId, p)
                 => /\ handleUpdateLocation(c, "ok", s, p, sid, lastId).resp.status = "skipped"
                    /\ logLocation(s, "ok", p, sid, lastId).resp.status = "success"
                    /\ logLocation(s, "ok", p, sid, lastId).resp.saved = NULL
    /\ \A c \in Channels, s \in SellerIds, p \in InvalidPoints, sid \in SessionIdInputs :
          \A lastId \in LastLocationChoices(s) :
              handleUpdateLocation(c, "ok", s, p, sid, lastId).resp.status = "WsException"
    /\ \A c \in Channels, shape \in PayloadShapes \ {"ok"}, s \in SellerIds :
          \A lastId \in LastLocationChoices(s) :
              handleUpdateLocation(c, shape, s, PointA, NULL, lastId).resp.status
                 = "WsException"

\* the reason each malformed payload is rejected for
PayloadReason(shape) ==
    CASE shape = "sellerIdNotString" -> "Invalid sellerId"
      [] shape = "latLngMissing" -> "Missing latitude or longitude"
      [] shape = "latLngNotNumber" -> "Latitude and longitude must be numbers"

\* C12: an updateLocation with a malformed payload is rejected with the message of
\* its specific reason and persists nothing.
C12_MalformedPayloadDescribed ==
    \A c \in Channels, shape \in PayloadShapes \ {"ok"}, s \in SellerIds :
        \A lastId \in LastLocationChoices(s) :
            LET ws == handleUpdateLocation(c, shape, s, PointA, NULL, lastId)
            IN  /\ ws.resp.status = "WsException"
                /\ ws.resp.message = PayloadReason(shape)
                /\ ws.logs = locationLogs

\* C13: every updateLocation ends in an ack "ok", an ack "skipped" or a WsException;
\* an error of validation, of the policy or of storage becomes the WsException, and the
\* message neither disconnects a socket nor changes the registry.
C13_OneOutcomePerUpdate ==
    [][/\ \A c \in Channels, shape \in PayloadShapes, s \in SellerIdInputs,
             p \in SamplePoints, sid \in SessionIdInputs :
             \A lastId \in LastLocationChoices(s) :
                 LET ws == handleUpdateLocation(c, shape, s, p, sid, lastId)
                 IN  /\ ws.resp.status \in {"ok", "skipped", "WsException"}
                     /\ (ws.resp.outcome \notin {"logged", "skipped"}
                            => ws.resp.status = "WsException" /\ ws.logs = locationLogs)
       /\ last' # last
             => /\ last'.op = "updateLocation"
                /\ last'.status \in {"ok", "skipped", "WsException"}
                /\ UNCHANGED <<connectedSellers, sockets, pendingDisconnect, lastReg>>]_vars

\* an updateLocation has just failed inside the policy and was answered with the
\* WsException, with a seller registered on a live socket
C13_Witness ==
    /\ last.op = "updateLocation"
    /\ last.outcome = "TypeError"
    /\ last.status = "WsException"
    /\ \E i \in 1..Len(connectedSellers) : sockets[connectedSellers[i][2]] = "connected"

\* C14: an updateLocation emits sellerLocationUpdate exactly when its sample was
\* accepted, with the row already saved, to the connected sockets other than the
\* sender; a skipped or rejected sample emits nothing.
C14_BroadcastIffAccepted ==
    \A c \in Channels, shape \in PayloadShapes, s \in SellerIdInputs,
       p \in SamplePoints, sid \in SessionIdInputs :
       \A lastId \in LastLocationChoices(s) :
           LET ws == handleUpdateLocation(c, shape, s, p, sid, lastId)
           IN  /\ ws.resp.broadcast <=> ws.resp.status = "ok"
               /\ ws.resp.broadcast <=> ws.logs # locationLogs
               /\ ws.resp.broadcast
                     => /\ ws.logs = Append(locationLogs,
                                            [sellerId |-> s, sessionId |-> sid,
                                             recordedAt |-> now, location |-> p])
                        /\ ws.resp.saved = Len(ws.logs)
                        /\ ws.resp.broadcastTo
                              = {d \in Channels : sockets[d] = "connected"} \ {c}
               /\ ~ws.resp.broadcast => ws.resp.broadcastTo = {}

\* an accepted updateLocation was broadcast to the one other connected socket
C14_Witness ==
    /\ last.op = "updateLocation"
    /\ last.broadcast
    /\ last.saved = Len(locationLogs)
    /\ \A c \in ChannelPair : sockets[c] = "connected"
    /\ Cardinality(last.broadcastTo) = 1

\* C15: setStoreStatus(isOpen = true) for an existing seller adds exactly one session
\* row of that seller with startTime = now, endTime = null and totalDistanceKm = 0,
\* and leaves every existing row as it was.
C15_OpenCreatesOneSession ==
    \A u \in StoreOwners :
        LET result == setStoreStatus(u, TRUE, NULL)
        IN  /\ result.sessions
                 = Append(sessions, [sellerId |-> SellerOfUser(u), startTime |-> now,
                                     endTime |-> NULL, totalDistanceKm |-> <<0, 0>>])
            /\ result.resp.status = "success"
            /\ result.resp.sessionId = Len(sessions) + 1

\* a store with an earlier session still open has just been opened again, after time 0
C15_Witness ==
    /\ last.op = "setStoreStatus" /\ last.outcome = "opened"
    /\ last.sessionId = Len(sessions)
    /\ sessions[last.sessionId].startTime = now
    /\ sessions[last.sessionId].endTime = NULL
    /\ now > 0
    /\ \E i \in SessionIds :
          /\ i < last.sessionId
          /\ sessions[i].sellerId = sessions[last.sessionId].sellerId
          /\ sessions[i].endTime = NULL

\* C16: setStoreStatus(isOpen = false) sets endTime = now on the seller's session
\* without end time that has the latest startTime, and changes no other field and no
\* other row; the rows of other sellers stay as they were.
C16_CloseEndsLatestOpenSession ==
    \A u \in StoreOwners :
        \A activeId \in ActiveSessionChoices(SellerOfUser(u)) \ {NULL} :
            LET result == setStoreStatus(u, FALSE, activeId)
            IN  /\ sessions[activeId].sellerId = SellerOfUser(u)
                /\ sessions[activeId].endTime = NULL
                /\ \A j \in OpenSessionIds(SellerOfUser(u)) :
                      sessions[j].startTime <= sessions[activeId].startTime
                /\ result.sessions = [sessions EXCEPT ![activeId].endTime = now]
                /\ result.resp.sessionId = activeId

\* C17: setStoreStatus(isOpen = false) for a seller without open session creates and
\* changes no session row, returns no error, and sets the seller's isOpen to false.
C17_CloseWithoutSessionIsNoOp ==
    \A u \in StoreOwners :
        OpenSessionIds(SellerOfUser(u)) = {}
           => /\ ActiveSessionChoices(SellerOfUser(u)) = {NULL}
              /\ LET result == setStoreStatus(u, FALSE, NULL)
                 IN  /\ result.sessions = sessions
                     /\ result.resp.status = "success"
                     /\ result.resp.outcome = "closed"
                     /\ result.sellerIsOpen
                           = [sellerIsOpen EXCEPT ![SellerOfUser(u)] = FALSE]


DistancesKept ==
    \A i \in SessionIds : sessions'[i].totalDistanceKm = sessions[i].totalDistanceKm

\* C19: every step that is not a distance request (a clock-in, either step of a
\* clock-out, a sample upload, the clock) leaves the totalDistanceKm of every existing
\* session unchanged, also when a distance request for the session was served between
\* the two steps of the clock-out.
C19_DistanceChangedOnlyByRecompute ==
    [][(~ \E sid \in SessionIds : CalculateDistance(sid)) => DistancesKept]_vars

\* a clock-out has read its session row, and a distance request for that session, with
\* at least two logs to add up, has been served since
C19_Witness ==
    \E c \in closing :
        /\ last # c.before
        /\ last.op = "calculateDistance"
        /\ last.sessionId = c.id
        /\ Cardinality({i \in LogIds : locationLogs[i].sessionId = c.id}) >= 2


\* C20: in every step the rows of seller_location_logs that exist stay as they are, in
\* place; the table changes only by one new row at its end, and only in a sample upload
\* (over the socket or over HTTP) that answers with the accept outcome.
C20_LogsAppendOnly ==
    [][/\ Len(locationLogs') >= Len(locationLogs)
       /\ SubSeq(locationLogs', 1, Len(locationLogs)) = locationLogs
       /\ locationLogs' # locationLogs
             => /\ Len(locationLogs') = Len(locationLogs) + 1
                /\ last'.op \in {"updateLocation", "logLocation"}
                /\ last'.outcome = "logged"]_vars

\* a sample has just been accepted into a table that already held a row
C20_Witness ==
    /\ last.op \in {"updateLocation", "logLocation"}
    /\ last.outcome = "logged"
    /\ Len(locationLogs) >= 2
    /\ locationLogs[Len(locationLogs)].recordedAt = now


\* C21: setStoreStatus for a user without seller profile fails with NotFoundException
\* ("Store profile not found"), and the session rows and the sellers' isOpen stay as
\* they were.
C21_NoProfileIsNotFound ==
    \A u \in Users \ StoreOwners, isOpen \in BOOLEAN :
        /\ setStoreStatus(u, isOpen, NULL).resp.outcome = "NotFoundException"
        /\ setStoreStatus(u, isOpen, NULL).resp.status = "error"
        /\ setStoreStatus(u, isOpen, NULL).resp.message = "Store profile not found"
        /\ setStoreStatus(u, isOpen, NULL).sessions = sessions
        /\ setStoreStatus(u, isOpen, NULL).sellerIsOpen = sellerIsOpen

\* a user without profile has just been refused while sessions exist, one of them open
C21_Witness ==
    /\ last.op = "setStoreStatus"
    /\ last.outcome = "NotFoundException"
    /\ \E i \in SessionIds : sessions[i].endTime = NULL
    /\ \E s \in SellerIds : sellerIsOpen[s]


\* C22: a distance request for a sessionId that is no row of seller_sessions is
\* answered with a not-found error, not with a distance, and leaves the session and
\* log rows as they were.
C22_UnknownSessionIsNotFound ==
    [][(last'.op = "calculateDistance" /\ last'.sessionId \notin SessionIds)
          => /\ last'.status = "error"
             /\ last'.outcome = "NotFoundException"
             /\ sessions' = sessions
             /\ locationLogs' = locationLogs]_vars


\* C23: in a first shift of open, sample (10.0, 20.0), sample (10.00001, 20.00001)
\* five seconds later, close: the second sample is answered as skipped, and after the
\* close there is exactly one session, ended, with totalDistanceKm 0, and exactly one
\* location log, the first sample.
C23_ShiftScenario ==
    /\ (/\ last.op \in {"updateLocation", "logLocation"}
        /\ locationLogs # <<>>
        /\ now = locationLogs[1].recordedAt + ScenarioDelaySeconds)
          => (last.outcome = "logged" /\ Len(locationLogs) = 1) \/ last.outcome = "skipped"
    /\ (last.op = "setStoreStatus" /\ last.outcome = "closed")
          => /\ Len(sessions) = 1
             /\ sessions[1].endTime = now
             /\ sessions[1].totalDistanceKm = <<0, 0>>
             /\ Len(locationLogs) = 1
             /\ locationLogs[1].location = PointA


\* C24: in every interleaving of a seller's uploads over the socket and over HTTP, any
\* two logs of the seller that were persisted one after the other differ by more than
\* 2 minutes in recordedAt or by more than 20 m in position.
C24_NoIngestRace ==
    \A i, j \in LogIds :
        (/\ i < j
         /\ locationLogs[i].sellerId = locationLogs[j].sellerId
         /\ \A k \in LogIds :
               (i < k /\ k < j) => locationLogs[k].sellerId # locationLogs[i].sellerId)
           => \/ getTime(locationLogs[j].recordedAt) - getTime(locationLogs[i].recordedAt)
                    > MIN_TIME_INTERVAL_MS
              \/ FartherThanMinDistance(i, locationLogs[j].location)


\* the socket is gone: dropped or disconnected by the server, no entry in the registry
ChannelGone(client) ==
    /\ sockets[client] = "disconnected"
    /\ \A e \in 1..Len(connectedSellers) : connectedSellers[e][2] # client

\* C25: a connection, registration, drop or disconnect step leaves the uploads in
\* flight and the logs as they are; and when an upload of a socket finishes, the rows
\* afterwards are those that logLocationHistory yields for the row it had read, also
\* when the socket is gone by then: the sample is persisted if the policy accepts it.
C25_DropCancelsNothing ==
    [][/\ regVars' # regVars => (inflight' = inflight /\ locationLogs' = locationLogs)
       /\ \A k \in 1..Len(inflight) :
             (inflight[k].op = "updateLocation" /\ inflight' = RemoveAt(inflight, k))
                => /\ locationLogs' =
                         logLocationHistory(inflight[k].sellerId, inflight[k].point[1],
                                            inflight[k].point[2], inflight[k].sessionId,
                                            inflight[k].lastId).logs
                   /\ last'.outcome =
                         logLocationHistory(inflight[k].sellerId, inflight[k].point[1],
                                            inflight[k].point[2], inflight[k].sessionId,
                                            inflight[k].lastId).status]_vars

\* an upload of a socket is in flight, the socket has been disconnected and its
\* registry entry removed in the meantime, and the policy accepts the sample
C25_Witness ==
    \E k \in 1..Len(inflight) :
        /\ inflight[k].op = "updateLocation"
        /\ ChannelGone(inflight[k].client)
        /\ lastReg.op = "disconnect"
        /\ lastReg.client = inflight[k].client
        /\ logLocationHistory(inflight[k].sellerId, inflight[k].point[1],
                              inflight[k].point[2], inflight[k].sessionId,
                              inflight[k].lastId).status = "logged"


\* the register payloads without usable sellerId: missing or empty, or not a string
BadRegisterPayloads == {<<"ok", "">>} \cup {<<"sellerIdNotString", s>> : s \in SellerIds}

\* C26: a register event whose sellerId is missing, empty or not a string fails with a
\* WsException and leaves the registry, the sockets and the pending disconnects as they
\* are; a register event with a sellerId is acknowledged as registered for that sellerId.
C26_BadRegisterRejected ==
    \A c \in Channels, sync \in BOOLEAN :
        /\ \A b \in BadRegisterPayloads :
              /\ handleRegister(c, b[1], b[2], sync).evt.status = "WsException"
              /\ handleRegister(c, b[1], b[2], sync).map = connectedSellers
              /\ handleRegister(c, b[1], b[2], sync).sockets = sockets
              /\ handleRegister(c, b[1], b[2], sync).pending = pendingDisconnect
        /\ \A s \in SellerIds :
              /\ handleRegister(c, "ok", s, sync).evt.status = "registered"
              /\ handleRegister(c, "ok", s, sync).evt.sellerId = s

\* a register without usable sellerId has just been refused on a socket that holds a
\* registration, while another seller is registered on another live socket
C26_Witness ==
    /\ lastReg.op = "register"
    /\ lastReg.status = "WsException"
    /\ \E e \in 1..Len(connectedSellers) : connectedSellers[e][2] = lastReg.client
    /\ \E e \in 1..Len(connectedSellers) :
          /\ connectedSellers[e][2] # lastReg.client
          /\ sockets[connectedSellers[e][2]] = "connected"


\* C27: for a caller that does not own the session, the session history response
\* carries no rows of the session, and the distance request answers and leaves the
\* sessions as it would if the session had no logs.
C27_ScopedToCaller ==
    \A caller \in SellerIds, sid \in SessionIds :
        sessions[sid].sellerId # caller
           => \A history \in SessionLocationHistories(sid) :
                 /\ getSessionHistory(sid, history).data = <<>>
                 /\ calculateSessionDistance(sid, history)
                       = calculateSessionDistance(sid, <<>>)


\* the points of a session's logs in the order of `history`, as persisted
PersistedPoints(history) == [k \in 1..Len(history) |-> locationLogs[history[k]].location]

\* C28: the route distance that calculateSessionDistance computes over a session's
\* chronologically ordered points is 0 for no point or one point, and for more points
\* the sum of the haversine distances of every consecutive pair.
C28_RouteDistanceIsPairSum ==
    \A sid \in SessionIds :
        \A history \in SessionLocationHistories(sid) :
            /\ calculateSessionDistance(sid, history).status = "ok"
            /\ Len(history) < 2 => calculateSessionDistance(sid, history).distance = <<0, 0>>
            /\ Len(history) >= 2
                  => calculateSessionDistance(sid, history).distance
                        = SumDistances(PersistedPoints(history), 1)


\* C29: the distance of two valid points is the same in both directions, and the
\* distance of a valid point to itself is 0.
C29_HaversineSymmetric ==
    last.op = "haversineDistance"
       => /\ isValidCoordinate(last.data[1][1], last.data[1][2])
          /\ isValidCoordinate(last.data[2][1], last.data[2][2])
          /\ last.distance = haversineDistance(last.data[2][1], last.data[2][2],
                                               last.data[1][1], last.data[1][2])
          /\ last.data[1] = last.data[2] => last.distance = <<0, 0>>

\* the distance of two points that differ in latitude and in longitude has been
\* computed and is not 0
C29_Witness ==
    /\ last.op = "haversineDistance"
    /\ last.data[1][1] # last.data[2][1]
    /\ last.data[1][2] # last.data[2][2]
    /\ last.distance # <<0, 0>>


\* C30: for every point with latitude in [-90, 90] and longitude in [-180, 180],
\* from(to(p)) is p, latitude as latitude and longitude as longitude, also for
\* coordinates that are 0 or of very small magnitude.
C30_CodecRoundTrip ==
    last.op = "from"
       => last.data[3] = [defined |-> TRUE, latitude |-> last.data[1].latitude,
                          longitude |-> last.data[1].longitude]


\* the decoded value is a point of the valid ranges
ValidDecoded(point) ==
    /\ point.defined
    /\ point.latitude # NaN /\ point.longitude # NaN
    /\ ~DecimalLt(point.latitude, -90) /\ ~DecimalGt(point.latitude, 90)
    /\ ~DecimalLt(point.longitude, -180) /\ ~DecimalGt(point.longitude, 180)

\* C31: whatever the stored value, binary or textual, from returns either no location
\* or a point with latitude in [-90, 90] and longitude in [-180, 180]; a value that is
\* malformed, too short or out of range gives no location.
C31_DecodeNeverInvalid ==
    last.op = "decoded" => (last.data[2] = UndefinedPoint \/ ValidDecoded(last.data[2]))

\* C32: a binary value of at least 25 bytes with coordinates in range decodes to the
\* point it holds, whether its flag declares little-endian (1) or big-endian (0).
C32_DeclaredByteOrderHonored ==
    (/\ last.op = "decoded"
     /\ last.data[1] # <<>>
     /\ last.data[1][1] = "Buffer"
     /\ last.data[1][2] >= 25
     /\ ValidDecoded([defined |-> TRUE, latitude |-> last.data[1][5],
                      longitude |-> last.data[1][4]]))
       => last.data[2] = [defined |-> TRUE, latitude |-> last.data[1][5],
                          longitude |-> last.data[1][4]]


\* C33: after any sequence of setStoreStatus calls, a seller's isOpen is true exactly
\* when the seller has a session without end time.
C33_IsOpenIffOpenSession ==
    \A s \in SellerIds : sellerIsOpen[s] <=> OpenSessionIds(s) # {}


\* C34: every persisted log with a sessionId refers to a row of seller_sessions, and
\* that session belongs to the seller of the log.
C34_LogSessionOfSameSeller ==
    \A i \in LogIds :
        locationLogs[i].sessionId # NULL
           => /\ locationLogs[i].sessionId \in SessionIds
              /\ sessions[locationLogs[i].sessionId].sellerId = locationLogs[i].sellerId


\* C35: the recordedAt of every log of a session lies between the session's startTime
\* and, once the session is ended, its endTime.
C35_NoLogAfterClose ==
    \A i \in LogIds :
        locationLogs[i].sessionId \in SessionIds
           => /\ sessions[locationLogs[i].sessionId].startTime <= locationLogs[i].recordedAt
              /\ \/ sessions[locationLogs[i].sessionId].endTime = NULL
                 \/ locationLogs[i].recordedAt <= sessions[locationLogs[i].sessionId].endTime


\* C36: in every step, also a step of a clock-out that overlaps another request, a
\* session whose endTime is set keeps that endTime.
C36_EndTimeWrittenOnce ==
    [][\A i \in SessionIds :
          sessions[i].endTime # NULL => sessions'[i].endTime = sessions[i].endTime]_vars


\* C37: an updateLocation for seller s on a connected socket that is not the socket
\* registered for s (never registered, registered for another seller, or replaced)
\* writes no log.
C37_OnlyRegisteredChannelIngests ==
    \A c \in ChannelPair, s \in SellerIds :
        (sockets[c] = "connected" /\ MapGet(connectedSellers, s) # c)
           => \A lastId \in LastLocationChoices(s) :
                 handleUpdateLocation(c, "ok", s, PointA, NULL, lastId).logs = locationLogs


\* C38: when the socket that is registered for seller s sends register(s) again, it
\* stays connected and stays the socket registered for s.
C38_ReRegisterKeepsChannel ==
    \A c \in Channels, s \in SellerIds, sync \in BOOLEAN :
        (sockets[c] = "connected" /\ MapGet(connectedSellers, s) = c)
           => /\ handleRegister(c, "ok", s, sync).sockets[c] = "connected"
              /\ MapGet(handleRegister(c, "ok", s, sync).map, s) = c
              /\ handleRegister(c, "ok", s, sync).pending = pendingDisconnect


\* the sessions without end time that have no log yet
FreshSessionIds == {i \in SessionIds : sessions[i].endTime = NULL
                                        /\ \A k \in LogIds : locationLogs[k].sessionId # i}

\* C39: a valid sample uploaded by the seller of an open session that has no log yet
\* is persisted with that sessionId, whatever the seller's last persisted sample is.
C39_FirstSampleOfSessionPersisted ==
    \A sid \in FreshSessionIds, p \in ValidPoints :
        \A lastId \in LastLocationChoices(sessions[sid].sellerId) :
            /\ logLocationHistory(sessions[sid].sellerId, p[1], p[2], sid, lastId).status
                  = "logged"
            /\ logLocationHistory(sessions[sid].sellerId, p[1], p[2], sid, lastId).logs
                  = Append(locationLogs,
                           [sellerId |-> sessions[sid].sellerId, sessionId |-> sid,
                            recordedAt |-> now, location |-> p])

=============================================================================
